---- MODULE Spec2Model ----
(***************************************************************************)
(* Message ingestion, authorization and dispatch pipeline of the           *)
(* WhatsApp agent server: the auth service (Access Control Directory),     *)
(* the agent router (direct API), the webhook router and the agent         *)
(* orchestrator (dispatcher) with its audit log.                           *)
(*                                                                         *)
(* Strings that the code inspects character by character (phone numbers)   *)
(* are sequences of one-character strings.                                 *)
(***************************************************************************)
EXTENDS Integers, Sequences, FiniteSets, TLC

VARIABLES
    dir,    \* the AuthorizedNumber collection: a set of records
    staff,  \* the Staff collection: a set of documents
    log,    \* the Log collection (audit log), in insertion order
    req     \* the requests: each one's envelope, position and outcome

vars == <<dir, staff, log, req>>

----------------------------------------------------------------------------
(* Bounds of the model *)

\* longest raw sender identifier handed to the auth service
MaxIdLen == 2
\* largest number of records the directory holds
MaxRecords == 2
\* number of requests received
MaxReq == 1

----------------------------------------------------------------------------
(* Sender identifiers and their normalization (auth service) *)

Digits == {"0", "1", "2", "3", "4", "5", "6", "7", "8", "9"}

\* characters raw identifiers are written with: a digit, the plus sign and a
\* separator that normalization strips
Alphabet == {"+", "1", "-"}

RawIds == UNION {[1..k -> Alphabet] : k \in 0..MaxIdLen}

\* the character class [0-9+] of the regular expression /[^0-9+]/g
IsKept(c) == c \in Digits \cup {"+"}

StartsWithPlus(s) == Len(s) > 0 /\ s[1] = "+"

normalizePhoneNumber(phone) ==
    LET normalized == SelectSeq(phone, IsKept)
    IN  IF StartsWithPlus(normalized) THEN normalized ELSE <<"+">> \o normalized

----------------------------------------------------------------------------
(* The Access Control Directory (auth service over AuthorizedNumber) *)

AgentTypes == {"customer", "staff", "admin"}
RestrictedTypes == {"staff", "admin"}

\* the account createAdmin / createStaff links a number to: admin._id, staff._id
AccountId(userType) == IF userType = "admin" THEN "adminId" ELSE "staffId"
UserIds == {AccountId(userType) : userType \in RestrictedTypes}
NoUser == "null"

\* AuthorizedNumber.findOne({phone, userType, isActive: true})
ActiveMatches(d, phone, userType) ==
    {rec \in d : rec.phone = phone /\ rec.userType = userType /\ rec.isActive}

\* a faulty variant of isAuthorizedForAgentType: the isActive flag is not part of the query
IsAuthorizedIgnoringActive(d, phone, isString, agentType, dbFails) ==
    IF ~isString THEN FALSE
    ELSE IF agentType = "customer" THEN TRUE
    ELSE IF dbFails THEN FALSE
    ELSE \E rec \in d : rec.phone = normalizePhoneNumber(phone)
                         /\ rec.userType = agentType

\* isString: phone is a string (phone.replace throws otherwise, and the
\* catch returns false); dbFails: the findOne rejects
isAuthorizedForAgentType(d, phone, isString, agentType, dbFails) ==
    IF ~isString THEN FALSE
    ELSE IF agentType = "customer" THEN TRUE
    ELSE IF dbFails THEN FALSE
    ELSE ActiveMatches(d, normalizePhoneNumber(phone), agentType) # {}

getUserIdFromPhone(d, phone, userType, dbFails) ==
    IF dbFails THEN NoUser
    ELSE LET m == ActiveMatches(d, normalizePhoneNumber(phone), userType)
         IN  IF m = {} THEN NoUser ELSE (CHOOSE rec \in m : TRUE).userId

\* a faulty variant of addAuthorizedNumber: the record is stored under the raw identifier
AddRawNumber(d, phone, userType, userId, dbFails) ==
    IF dbFails \/ (\E rec \in d : rec.phone = phone)
    THEN [threw |-> TRUE, dir |-> d]
    ELSE [threw |-> FALSE,
          dir |-> d \cup {[phone |-> phone, userType |-> userType,
                           userId |-> userId, isActive |-> TRUE]}]

\* a faulty variant of addAuthorizedNumber: the existing record is not looked for
AddWithoutLookup(d, phone, userType, userId, dbFails) ==
    IF dbFails
    THEN [threw |-> TRUE, dir |-> d]
    ELSE [threw |-> FALSE,
          dir |-> d \cup {[phone |-> normalizePhoneNumber(phone), userType |-> userType,
                           userId |-> userId, isActive |-> TRUE]}]

\* the outcome of addAuthorizedNumber: whether it threw, and the collection after
addAuthorizedNumber(d, phone, userType, userId, dbFails) ==
    LET normalizedPhone == normalizePhoneNumber(phone)
    IN  IF dbFails \/ (\E rec \in d : rec.phone = normalizedPhone)
        THEN [threw |-> TRUE, dir |-> d]
        ELSE [threw |-> FALSE,
              dir |-> d \cup {[phone |-> normalizedPhone, userType |-> userType,
                               userId |-> userId, isActive |-> TRUE]}]

\* the outcome of removeAuthorizedNumber: its return value, and the collection after
removeAuthorizedNumber(d, phone, dbFails) ==
    LET normalizedPhone == normalizePhoneNumber(phone)
        hit == {rec \in d : rec.phone = normalizedPhone}
    IN  IF dbFails THEN [ret |-> FALSE, dir |-> d]
        ELSE [ret |-> hit # {}, dir |-> d \ hit]

\* the outcome of updateAuthorizedNumberStatus (updateOne also stamps updatedAt,
\* so a matched record counts as modified)
updateAuthorizedNumberStatus(d, phone, isActive, dbFails) ==
    LET normalizedPhone == normalizePhoneNumber(phone)
        hit == {rec \in d : rec.phone = normalizedPhone}
    IN  IF dbFails THEN [ret |-> FALSE, dir |-> d]
        ELSE [ret |-> hit # {},
              dir |-> (d \ hit) \cup {[rec EXCEPT !.isActive = isActive] : rec \in hit}]

\* the role the webhook router resolves a sender to; failAdmin / failStaff: the
\* lookup of that role rejects
determineAgentType(d, sender, isString, failAdmin, failStaff) ==
    IF isAuthorizedForAgentType(d, sender, isString, "admin", failAdmin) THEN "admin"
    ELSE IF isAuthorizedForAgentType(d, sender, isString, "staff", failStaff) THEN "staff"
    ELSE "customer"

----------------------------------------------------------------------------
(* The webhook verifier and decoder (WhatsApp service) *)

\* validateWhatsAppWebhook(signature, body); signatureMatches: the header equals
\* the HMAC of the raw body under the app secret
validateWhatsAppWebhook(signatureMatches) == TRUE

\* shapes of the webhook payload: a null body, a body without
\* entry[0].changes[0].value.messages[0], one with a message whose timestamp is
\* missing or not a number, one with a full message
PayloadShapes == {"nullBody", "noMessage", "badTimestamp", "ok"}

\* a faulty variant of parseWhatsAppWebhook: a missing message is not reported
ParseWithoutMessageCheck(payload) ==
    [isNull |-> FALSE, validDate |-> (payload = "ok")]

\* parseWhatsAppWebhook(payload): null, or the message with the Date it builds
\* (new Date(NaN) is an Invalid Date, not a failure); payload.entry throws on a
\* null body, into the catch block, which returns null
parseWhatsAppWebhook(payload) ==
    LET threw == payload = "nullBody"
    IN  IF threw \/ payload = "noMessage" THEN [isNull |-> TRUE, validDate |-> FALSE]
        ELSE [isNull |-> FALSE, validDate |-> (payload = "ok")]

----------------------------------------------------------------------------
(* Requests *)

Reqs == 1..MaxReq

\* the fixed reply of the dispatcher's catch block (the handlers' own catch
\* blocks reply with the same text)
Apology == "I apologize, but I encountered an error processing your request. Please try again later."
\* any reply a handler composes itself
HandlerReply == "handler reply"

NoReply == "none"

\* the action tags each handler's replies carry
HandlerActions(agentType) ==
    CASE agentType = "customer" -> {{}, {"email"}}
      [] agentType = "staff"    -> {{}, {"whatsapp"}, {"email", "whatsapp"}}
      [] agentType = "admin"    -> {{}, {"email"}, {"email", "whatsapp"}}

IdleReq ==
    [pc |-> "idle", entry |-> "none", agentType |-> "none",
     senderId |-> <<>>, idKind |-> "missing", bodyOk |-> FALSE, mediaOk |-> TRUE,
     signatureMatches |-> FALSE, payload |-> "none", decoded |-> FALSE,
     status |-> 0, nResp |-> 0, authCheck |-> "none", lookups |-> 0,
     handlerCalls |-> 0, handlerOutcome |-> "none",
     hReply |-> NoReply, hActions |-> {},
     reply |-> NoReply, actions |-> {},
     failed |-> {}, sent |-> 0, sendFailed |-> FALSE, outbox |-> <<>>]

Init ==
    /\ dir = {}
    /\ staff = {}
    /\ log = <<>>
    /\ req = [r \in Reqs |-> IdleReq]

\* an envelope is discarded once its request has been processed
RetiredReq == [IdleReq EXCEPT !.pc = "retired"]

\* requests are received one after the other
CanStart(r) ==
    /\ req[r].pc = "idle"
    /\ \A q \in Reqs : q < r => req[q].pc \in {"done", "retired"}

\* request r starts as rec
Start(r, rec) ==
    [q \in Reqs |-> IF q = r THEN rec ELSE IF q < r THEN RetiredReq ELSE req[q]]

\* the audit entries kept when request r starts: the entries about a discarded
\* envelope are never read again
KeptEntries(r) == SelectSeq(log, LAMBDA e : e.rid >= r)

\* res.status(code).send(...): the request's HTTP response
Respond(rec, code) == [rec EXCEPT !.status = code, !.nResp = @ + 1]

\* a faulty variant of LogCreate: the entries are kept in one buffer, and a rejected write
\* drops what the other requests have put there
LogCreateSharedBuffer(r, action, ok) ==
    IF ok THEN Append(log, [rid |-> r, action |-> action])
    ELSE SelectSeq(log, LAMBDA e : e.rid = r)

\* Log.create({agentType, action, ...}) for request r; ok: the write is accepted
LogCreate(r, action, ok) ==
    IF ok THEN Append(log, [rid |-> r, action |-> action])
    ELSE log

NoteWrite(rec, action, ok) ==
    IF ok THEN rec ELSE [rec EXCEPT !.failed = @ \cup {action}]

----------------------------------------------------------------------------
(* The agent router (direct API) *)

\* validateAgentInput(input): agentType comes from the route and is always valid;
\* mediaUrl is not looked at
validateAgentInput(rec) == rec.idKind = "string" /\ rec.bodyOk

\* !senderId
IsFalsy(rec) == rec.idKind = "missing" \/ (rec.idKind = "string" /\ rec.senderId = <<>>)

\* handleAgentMessage up to its await of processAgentMessage
handleAgentMessage(rec) ==
    IF ~validateAgentInput(rec)
    THEN [Respond(rec, 400) EXCEPT !.pc = "done"]
    ELSE [rec EXCEPT !.pc = "logreq"]

\* a faulty variant of authorizeAgentAccess: the directory is looked up for every
\* role, and a sender is let through only when the lookup succeeds
AuthorizeByLookupOnly(rec, d, dbFails) ==
    IF IsFalsy(rec)
    THEN handleAgentMessage([rec EXCEPT !.authCheck = "skipped"])
    ELSE LET seen == [rec EXCEPT !.lookups = @ + 1]
             isAuthorized ==
                 /\ ~dbFails
                 /\ \/ rec.agentType = "customer"
                    \/ isAuthorizedForAgentType(d, rec.senderId, rec.idKind = "string",
                                                rec.agentType, dbFails)
         IN  IF ~isAuthorized
             THEN [Respond(seen, 403) EXCEPT !.pc = "done", !.authCheck = "denied"]
             ELSE handleAgentMessage([seen EXCEPT !.authCheck = "granted"])

\* the middleware authorizeAgentAccess(agentType), and next() into the route's handler
authorizeAgentAccess(rec, d, dbFails) ==
    IF IsFalsy(rec)
    THEN handleAgentMessage([rec EXCEPT !.authCheck = "skipped"])
    ELSE LET isAuthorized ==
                 isAuthorizedForAgentType(d, rec.senderId, rec.idKind = "string",
                                          rec.agentType, dbFails)
             looked == IF rec.idKind = "string" /\ rec.agentType # "customer"
                       THEN 1 ELSE 0
             seen == [rec EXCEPT !.lookups = @ + looked]
         IN  IF ~isAuthorized /\ rec.agentType # "customer"
             THEN [Respond(seen, 403) EXCEPT !.pc = "done", !.authCheck = "denied"]
             ELSE handleAgentMessage([seen EXCEPT !.authCheck = "granted"])

\* POST /agent/{agentType}
ApiReceive(r, ids) ==
    \E agentType \in AgentTypes, idKind \in {"string", "missing", "number"},
       senderId \in ids, bodyOk \in BOOLEAN, mediaOk \in BOOLEAN :
        /\ CanStart(r)
        /\ idKind # "string" => senderId = <<>>
        /\ req' = Start(r, [IdleReq EXCEPT !.pc = "mw", !.entry = "api",
                                            !.agentType = agentType, !.idKind = idKind,
                                            !.senderId = senderId, !.bodyOk = bodyOk,
                                            !.mediaOk = mediaOk])
        /\ log' = KeptEntries(r)
        /\ UNCHANGED <<dir, staff>>

Authorize(r) ==
    /\ req[r].pc = "mw"
    /\ \E dbFails \in BOOLEAN :
           req' = [req EXCEPT ![r] = authorizeAgentAccess(req[r], dir, dbFails)]
    /\ UNCHANGED <<dir, staff, log>>

ApiRespond(r) ==
    /\ req[r].pc = "return"
    /\ req[r].entry = "api"
    /\ req' = [req EXCEPT ![r] = [Respond(req[r], 200) EXCEPT !.pc = "done"]]
    /\ UNCHANGED <<dir, staff, log>>

----------------------------------------------------------------------------
(* The dispatcher (agent orchestrator) and the handlers *)

\* a faulty variant of AfterLogWrite: a rejected Log.create escapes the logging function
\* into the dispatcher's catch block
RethrowLogFailure(ok, next) == IF ok THEN next ELSE "logerr"

\* a faulty variant of AfterLogWrite: the await of a rejected Log.create never settles, and
\* the envelope is left where it was
StallOnLogFailure(ok, next) == IF ok THEN next ELSE "stalled"

\* where processAgentMessage goes on after logAgentRequest / logAgentResponse:
\* both catch a rejected Log.create, so the flow does not depend on it
AfterLogWrite(ok, next) == next

\* logAgentRequest(input)
LogAgentRequest(r) ==
    /\ req[r].pc = "logreq"
    /\ \E ok \in BOOLEAN :
        /\ log' = LogCreate(r, "agent_request", ok)
        /\ req' = [req EXCEPT ![r] =
                     [NoteWrite(req[r], "agent_request", ok)
                        EXCEPT !.pc = AfterLogWrite(ok, "handler")]]
    /\ UNCHANGED <<dir, staff>>

\* handleCustomerMessage / handleStaffMessage / handleAdminMessage is called and
\* runs its logMessage(input), which writes a message_received entry to the Log
InvokeHandler(r) ==
    /\ req[r].pc = "handler"
    /\ \E ok \in BOOLEAN :
        /\ log' = LogCreate(r, "message_received", ok)
        /\ req' = [req EXCEPT ![r] =
                     [NoteWrite(req[r], "message_received", ok)
                        EXCEPT !.pc = "process", !.handlerCalls = @ + 1]]
    /\ UNCHANGED <<dir, staff>>

\* what the call of the handler comes back with: "normal", a reply it composed;
\* "caught", the apology of the handler's own catch block; "threw", a rejection
\* that escapes the handler into the dispatcher's catch block
HandlerOutcomes == {"normal", "caught", "threw"}

HandlerReturns(r) ==
    /\ req[r].pc = "process"
    /\ \E outcome \in HandlerOutcomes, tags \in HandlerActions(req[r].agentType) :
        /\ outcome # "normal" => tags = {}
        /\ req' = [req EXCEPT ![r] =
                     [@ EXCEPT !.handlerOutcome = outcome,
                               !.hReply = CASE outcome = "normal" -> HandlerReply
                                            [] outcome = "caught" -> Apology
                                            [] outcome = "threw"  -> NoReply,
                               !.hActions = tags,
                               !.pc = IF outcome = "threw" THEN "logerr" ELSE "logresp"]]
    /\ UNCHANGED <<dir, staff, log>>

\* logAgentResponse(input, output); return output
LogAgentResponse(r) ==
    /\ req[r].pc = "logresp"
    /\ \E ok \in BOOLEAN :
        /\ log' = LogCreate(r, "agent_response", ok)
        /\ req' = [req EXCEPT ![r] =
                     [NoteWrite(req[r], "agent_response", ok)
                        EXCEPT !.pc = AfterLogWrite(ok, "return"),
                               !.reply = req[r].hReply, !.actions = req[r].hActions]]
    /\ UNCHANGED <<dir, staff>>

\* a faulty variant of ErrorLogged: the catch block returns the fallback without logging
ErrorNotLogged(r, ok) == log

\* the Log after the catch block's logAgentError(input, error)
ErrorLogged(r, ok) == LogCreate(r, "agent_error", ok)

\* a faulty variant of LogAgentError: after a handler failure the catch block calls the
\* handler a second time before it gives up
RetryAfterFailure(r) ==
    /\ req[r].pc = "logerr"
    /\ log' = log
    /\ req' = [req EXCEPT ![r] =
                 IF req[r].handlerCalls < 2 THEN [@ EXCEPT !.pc = "handler"]
                 ELSE [@ EXCEPT !.pc = "return", !.reply = Apology, !.actions = {}]]
    /\ UNCHANGED <<dir, staff>>

\* the catch block of processAgentMessage: logAgentError, then the fallback response
LogAgentError(r) ==
    /\ req[r].pc = "logerr"
    /\ \E ok \in BOOLEAN :
        /\ log' = ErrorLogged(r, ok)
        /\ req' = [req EXCEPT ![r] =
                     [NoteWrite(req[r], "agent_error", ok)
                        EXCEPT !.pc = "return", !.reply = Apology, !.actions = {}]]
    /\ UNCHANGED <<dir, staff>>

----------------------------------------------------------------------------
(* The webhook router *)

\* a faulty variant of AckStatus: building the input throws for every message (the
\* timestamp kept as the provider's string has no toISOString)
StatusWithoutDate(validDate) == 500

\* the status of the response the /whatsapp route sends after role resolution:
\* timestamp.toISOString() throws on an Invalid Date, into the route's catch block
AckStatus(validDate) == IF validDate THEN 200 ELSE 500

\* a faulty variant of Acknowledge: the route answers only after the processing it started
AcknowledgeLater(rec) == [rec EXCEPT !.pc = "logreq"]

\* input is built, the webhook acknowledged and processWebhookMessage(input) started
Acknowledge(rec) ==
    LET code == AckStatus(parseWhatsAppWebhook(rec.payload).validDate)
    IN  [Respond(rec, code) EXCEPT !.pc = IF code = 200 THEN "logreq" ELSE "done"]

\* POST /webhook/whatsapp up to the first await
WebhookReceive(r, ids) ==
    \E signatureMatches \in BOOLEAN, payload \in PayloadShapes, from \in ids :
        /\ CanStart(r)
        /\ LET rec == [IdleReq EXCEPT !.entry = "webhook", !.senderId = from,
                                      !.idKind = "string",
                                      !.signatureMatches = signatureMatches,
                                      !.payload = payload]
           IN  req' = Start(r,
                 IF ~validateWhatsAppWebhook(signatureMatches)
                 THEN [Respond(rec, 401) EXCEPT !.pc = "done"]
                 ELSE IF parseWhatsAppWebhook(payload).isNull
                 THEN [Respond(rec, 400) EXCEPT !.pc = "done", !.decoded = TRUE]
                 ELSE [rec EXCEPT !.pc = "resolveAdmin", !.decoded = TRUE])
        /\ log' = KeptEntries(r)
        /\ UNCHANGED <<dir, staff>>

\* determineAgentType: await isAuthorizedForAgentType(sender, 'admin')
ResolveAdmin(r) ==
    /\ req[r].pc = "resolveAdmin"
    /\ \E dbFails \in BOOLEAN :
        LET seen == [req[r] EXCEPT !.lookups = @ + 1]
        IN  req' = [req EXCEPT ![r] =
              IF isAuthorizedForAgentType(dir, seen.senderId, TRUE, "admin", dbFails)
              THEN Acknowledge([seen EXCEPT !.agentType = "admin"])
              ELSE [seen EXCEPT !.pc = "resolveStaff"]]
    /\ UNCHANGED <<dir, staff, log>>

\* determineAgentType: await isAuthorizedForAgentType(sender, 'staff')
ResolveStaff(r) ==
    /\ req[r].pc = "resolveStaff"
    /\ \E dbFails \in BOOLEAN :
        LET seen == [req[r] EXCEPT !.lookups = @ + 1]
        IN  req' = [req EXCEPT ![r] =
              IF isAuthorizedForAgentType(dir, seen.senderId, TRUE, "staff", dbFails)
              THEN Acknowledge([seen EXCEPT !.agentType = "staff"])
              ELSE Acknowledge([seen EXCEPT !.agentType = "customer"])]
    /\ UNCHANGED <<dir, staff, log>>

\* a faulty variant of WhatsAppCall: the reply is addressed to the directory key of the
\* sender
CallNormalizedNumber(rec) ==
    [to |-> normalizePhoneNumber(rec.senderId), message |-> rec.reply]

\* the arguments of whatsappService.sendWhatsAppMessage(input.senderId, output.reply)
WhatsAppCall(rec) == [to |-> rec.senderId, message |-> rec.reply]

\* a faulty variant of Deliver: a failed send is recorded in the audit log as an error of
\* the envelope
DeliverLoggingFailure(r) ==
    /\ req[r].pc = "return"
    /\ req[r].entry = "webhook"
    /\ \E sendOk \in BOOLEAN :
        LET failing == "whatsapp" \in req[r].actions /\ ~sendOk
        IN  /\ req' = [req EXCEPT ![r] =
                         [@ EXCEPT !.pc = "done",
                                   !.sent = IF "whatsapp" \in req[r].actions THEN @ + 1 ELSE @,
                                   !.sendFailed = failing,
                                   !.outbox = IF "whatsapp" \in req[r].actions
                                              THEN Append(@, WhatsAppCall(req[r])) ELSE @]]
            /\ log' = IF failing THEN LogCreate(r, "agent_error", TRUE) ELSE log
    /\ UNCHANGED <<dir, staff>>

\* processWebhookMessage after processAgentMessage has returned: the actions.
\* sendOk: the send succeeds; sendWhatsAppMessage catches a failure, writes it to
\* the console and returns {success: false}, which is not looked at. The email
\* action is a line on the console. outbox: the calls of sendWhatsAppMessage made.
Deliver(r) ==
    /\ req[r].pc = "return"
    /\ req[r].entry = "webhook"
    /\ \E sendOk \in BOOLEAN :
        req' = [req EXCEPT ![r] =
                  [@ EXCEPT !.pc = "done",
                            !.sent = IF "whatsapp" \in req[r].actions THEN @ + 1 ELSE @,
                            !.sendFailed = "whatsapp" \in req[r].actions /\ ~sendOk,
                            !.outbox = IF "whatsapp" \in req[r].actions
                                       THEN Append(@, WhatsAppCall(req[r])) ELSE @]]
    /\ UNCHANGED <<dir, staff, log>>

----------------------------------------------------------------------------
(* Management calls of the auth service *)

\* createAdmin / createStaff -> addAuthorizedNumber
Grant(ids) ==
    \E phone \in ids, userType \in RestrictedTypes, dbFails \in BOOLEAN :
        /\ Cardinality(dir) < MaxRecords
        /\ dir' = addAuthorizedNumber(dir, phone, userType, AccountId(userType), dbFails).dir
        /\ UNCHANGED <<staff, log, req>>

\* removeAuthorizedNumber(phone)
Revoke(ids) ==
    \E phone \in ids, dbFails \in BOOLEAN :
        /\ dir' = removeAuthorizedNumber(dir, phone, dbFails).dir
        /\ UNCHANGED <<staff, log, req>>

\* updateAuthorizedNumberStatus(phone, isActive)
SetActive(ids) ==
    \E phone \in ids, isActive \in BOOLEAN, dbFails \in BOOLEAN :
        /\ dir' = updateAuthorizedNumberStatus(dir, phone, isActive, dbFails).dir
        /\ UNCHANGED <<staff, log, req>>

DirNext == Grant(RawIds) \/ Revoke(RawIds) \/ SetActive(RawIds)

DirSpec == Init /\ [][DirNext]_vars

----------------------------------------------------------------------------
(* Staff accounts (auth service over the Staff collection) *)

RECURSIVE Str(_)
\* the string written with the characters of s
Str(s) == IF s = <<>> THEN "" ELSE Head(s) \o Str(Tail(s))

\* the _id of the Staff document of a phone: phone is unique in the Staff
\* collection and no document is ever deleted, so the phone identifies it
StaffId(phone) == "staff:" \o Str(phone)

\* the outcome of createStaff: whether it threw, and both collections after;
\* createFails: Staff.create rejects for another reason than a duplicate phone
createStaff(d, st, phone, createFails, dbFails) ==
    LET normalizedPhone == normalizePhoneNumber(phone)
        doc == [id |-> StaffId(normalizedPhone), phone |-> normalizedPhone,
                isActive |-> TRUE]
    IN  IF createFails \/ (\E s \in st : s.phone = normalizedPhone)
        THEN [threw |-> TRUE, dir |-> d, staff |-> st]
        ELSE LET added == addAuthorizedNumber(d, normalizedPhone, "staff", doc.id, dbFails)
             IN  [threw |-> added.threw, dir |-> added.dir, staff |-> st \cup {doc}]

\* the outcome of updateStaffStatus: its return value, and both collections
\* after; updateFails: Staff.findByIdAndUpdate rejects. The return value of
\* updateAuthorizedNumberStatus is not looked at.
updateStaffStatus(d, st, staffId, isActive, updateFails, dbFails) ==
    LET hit == {s \in st : s.id = staffId}
    IN  IF updateFails \/ hit = {}
        THEN [ret |-> FALSE, dir |-> d, staff |-> st]
        ELSE LET doc == CHOOSE s \in hit : TRUE
             IN  [ret |-> TRUE,
                  dir |-> updateAuthorizedNumberStatus(d, doc.phone, isActive, dbFails).dir,
                  staff |-> (st \ hit) \cup {[doc EXCEPT !.isActive = isActive]}]

----------------------------------------------------------------------------
(* The admin agent's staff management commands *)

\* the replies of the commands, without the details they quote
AddUsage == "Please provide all required staff details: name, email, and phone number."
NoPermission == "You do not have permission to add staff members. Only registered admins can perform this action."
StaffAdded == "Staff member added successfully"
RemoveUsage == "Please provide the phone number of the staff member to remove."
StaffNotFound == "No staff member found with phone number"
StaffRemoved == "Staff member has been removed from the system."
RemoveFailed == "Failed to remove staff member"
UpdateUsage == "Please provide the phone number of the staff member to activate or deactivate."
StaffActivated == "Staff member has been activated."
StaffDeactivated == "Staff member has been deactivated."
UpdateFailed == "Failed to activate or deactivate staff member"

\* error.message of what createStaff throws
FailureTexts == {"Phone number is already authorized",
                 "E11000 duplicate key error collection: staffs"}

\* the reply of the catch block of handleAddStaffRequest
ErrorAdding(errorText) == "Error adding staff member: " \o errorText

\* "Add staff: [name], [email], [phone], [role]" from adminPhone; detailsGiven:
\* name and email are not empty; errorText: the message of the error thrown
handleAddStaffRequest(d, st, adminPhone, phone, detailsGiven, lookupFails, createFails, dbFails, errorText) ==
    IF ~detailsGiven \/ phone = <<>>
    THEN [reply |-> AddUsage, actions |-> {}, dir |-> d, staff |-> st]
    ELSE IF getUserIdFromPhone(d, adminPhone, "admin", lookupFails) = NoUser
    THEN [reply |-> NoPermission, actions |-> {}, dir |-> d, staff |-> st]
    ELSE LET created == createStaff(d, st, phone, createFails, dbFails)
         IN  IF created.threw
             THEN [reply |-> ErrorAdding(errorText), actions |-> {},
                   dir |-> created.dir, staff |-> created.staff]
             ELSE [reply |-> StaffAdded, actions |-> {"email"},
                   dir |-> created.dir, staff |-> created.staff]

\* "Remove staff: [phone]"
handleRemoveStaffRequest(d, st, phone, lookupFails, dbFails) ==
    IF phone = <<>>
    THEN [reply |-> RemoveUsage, actions |-> {}, dir |-> d, staff |-> st]
    ELSE IF getUserIdFromPhone(d, phone, "staff", lookupFails) = NoUser
    THEN [reply |-> StaffNotFound, actions |-> {}, dir |-> d, staff |-> st]
    ELSE LET removed == removeAuthorizedNumber(d, phone, dbFails)
         IN  [reply |-> IF removed.ret THEN StaffRemoved ELSE RemoveFailed,
              actions |-> {}, dir |-> removed.dir, staff |-> st]

\* "Activate staff: [phone]" (isActivating) or "Deactivate staff: [phone]"
handleUpdateStaffStatusRequest(d, st, phone, isActivating, lookupFails, updateFails, dbFails) ==
    IF phone = <<>>
    THEN [reply |-> UpdateUsage, actions |-> {}, dir |-> d, staff |-> st]
    ELSE LET staffId == getUserIdFromPhone(d, phone, "staff", lookupFails)
         IN  IF staffId = NoUser
             THEN [reply |-> StaffNotFound, actions |-> {}, dir |-> d, staff |-> st]
             ELSE LET updated == updateStaffStatus(d, st, staffId, isActivating,
                                                   updateFails, dbFails)
                  IN  [reply |-> IF ~updated.ret THEN UpdateFailed
                                 ELSE IF isActivating THEN StaffActivated
                                 ELSE StaffDeactivated,
                       actions |-> {}, dir |-> updated.dir, staff |-> updated.staff]

\* what processAdminMessage can come back with for a staff management command
\* from adminPhone about one of the phones: the reply, its actions and both
\* collections after
processAdminMessage(d, st, adminPhone, phones) ==
    LET B == BOOLEAN
    IN  {handleAddStaffRequest(d, st, adminPhone, phone, given, lf, cf, df, text) :
            <<phone, given, lf, cf, df, text>> \in
                phones \X B \X B \X B \X B \X FailureTexts}
        \cup {handleRemoveStaffRequest(d, st, phone, lf, df) :
                <<phone, lf, df>> \in phones \X B \X B}
        \cup {handleUpdateStaffStatusRequest(d, st, phone, activating, lf, uf, df) :
                <<phone, activating, lf, uf, df>> \in phones \X B \X B \X B \X B}

\* handleAdminMessage runs a staff management command for request r
AdminCommand(r, phones) ==
    /\ req[r].pc = "process"
    /\ req[r].agentType = "admin"
    /\ \E out \in processAdminMessage(dir, staff, req[r].senderId, phones) :
        /\ dir' = out.dir
        /\ staff' = out.staff
        /\ req' = [req EXCEPT ![r] =
                     [@ EXCEPT !.handlerOutcome = "normal", !.hReply = out.reply,
                               !.hActions = out.actions, !.pc = "logresp"]]
    /\ UNCHANGED log

----------------------------------------------------------------------------
(* The staff management commands on their own *)

\* the phones of the accounts: two numbers
Phones == {<<"1">>, <<"1", "1">>}

\* a staff management command of a sender is processed; the command names one
\* of the phones, or none
StaffCommand(phones) ==
    \E adminPhone \in phones :
        \E out \in processAdminMessage(dir, staff, adminPhone, phones \cup {<<>>}) :
            /\ dir' = out.dir
            /\ staff' = out.staff
            /\ UNCHANGED <<log, req>>

AdminNext ==
    \/ Grant(Phones)
    \/ Revoke(Phones)
    \/ SetActive(Phones)
    \/ StaffCommand(Phones)

AdminSpec == Init /\ [][AdminNext]_vars

----------------------------------------------------------------------------
(* The pipeline *)

\* the sender identifiers of the requests: an empty one and two ways of
\* writing the same number
Senders == {<<>>, <<"1">>, <<"+", "1">>}

\* the identifiers the management calls are made with while requests arrive
Managed == Senders \ {<<>>}

Next ==
    \/ Grant(Managed)
    \/ Revoke(Managed)
    \/ SetActive(Managed)
    \/ \E r \in Reqs :
        \/ ApiReceive(r, Senders)
        \/ Authorize(r)
        \/ ApiRespond(r)
        \/ WebhookReceive(r, Senders)
        \/ ResolveAdmin(r)
        \/ ResolveStaff(r)
        \/ LogAgentRequest(r)
        \/ InvokeHandler(r)
        \/ HandlerReturns(r)
        \/ AdminCommand(r, Managed)
        \/ LogAgentResponse(r)
        \/ LogAgentError(r)
        \/ Deliver(r)

Spec == Init /\ [][Next]_vars

----------------------------------------------------------------------------
(* Reading the audit log *)

\* the entries of the audit log about request r, in the order of their insertion
EntriesOf(r) == SelectSeq(log, LAMBDA e : e.rid = r)

Count(r, action) ==
    Cardinality({i \in 1..Len(log) : log[i].rid = r /\ log[i].action = action})

\* the kind of audit event a Log action stands for
Kind(action) ==
    CASE action = "agent_request"    -> "received"
      [] action = "message_received" -> "received"
      [] action = "agent_response"   -> "responded"
      [] action = "agent_error"      -> "error"

KindsOf(r) == [i \in 1..Len(EntriesOf(r)) |-> Kind(EntriesOf(r)[i].action)]

\* processAgentMessage has returned its output for request r
Returned(r) == req[r].reply # NoReply

\* no Log.create for request r was rejected
SinkAccepted(r) == req[r].failed = {}

----------------------------------------------------------------------------
(* C1 *)

\* C1 as stated: whenever the handler called by processAgentMessage throws,
\* processAgentMessage returns the fixed fallback (apology, no actions) and the
\* audit log holds exactly one agent_error entry and no agent_response entry for
\* the envelope.
C1_FallbackWithOneErrorEvent ==
    \A r \in Reqs :
        (req[r].handlerOutcome = "threw" /\ Returned(r)) =>
            /\ req[r].reply = Apology
            /\ req[r].actions = {}
            /\ Count(r, "agent_error") = 1
            /\ Count(r, "agent_response") = 0

\* C1 amended: whenever the handler throws, processAgentMessage returns the fixed
\* fallback without throwing (the direct API answers 200), writes no
\* agent_response entry, and attempts the agent_error entry exactly once: the log
\* holds one agent_error entry when the sink accepts that write and none when
\* it rejects it.
C1_FallbackWithBestEffortErrorEvent ==
    \A r \in Reqs :
        (req[r].handlerOutcome = "threw" /\ Returned(r)) =>
            /\ req[r].reply = Apology
            /\ req[r].actions = {}
            /\ Count(r, "agent_response") = 0
            /\ "agent_response" \notin req[r].failed
            /\ Count(r, "agent_error") = (IF "agent_error" \in req[r].failed THEN 0 ELSE 1)
            /\ (req[r].pc = "done" /\ req[r].entry = "api") => req[r].status = 200

C1_Witness ==
    \E r \in Reqs :
        /\ req[r].handlerOutcome = "threw"
        /\ req[r].pc = "done"
        /\ req[r].reply = Apology
        /\ Count(r, "agent_error") = 1

----------------------------------------------------------------------------
(* C2 *)

\* C2: on the direct API a staff or admin handler is invoked only for a request
\* whose sender the middleware found authorized (an active record for the
\* normalized senderId and that role), whatever the senderId in the body.
C2_OnlyRegisteredReachHandlers ==
    \A r \in Reqs :
        (req[r].entry = "api" /\ req[r].agentType \in RestrictedTypes
            /\ req[r].handlerCalls > 0) => req[r].authCheck = "granted"

----------------------------------------------------------------------------
(* C3 *)

\* C3: a request for staff or admin that is rejected as unauthorized leaves
\* exactly one received (agent_request) and exactly one error (agent_error)
\* entry in the audit log, and no responded entry.
C3_RejectionAudited ==
    \A r \in Reqs :
        (req[r].agentType \in RestrictedTypes /\ req[r].status = 403) =>
            /\ Count(r, "agent_request") = 1
            /\ Count(r, "agent_error") = 1
            /\ Count(r, "agent_response") = 0

----------------------------------------------------------------------------
(* C4 *)

\* C4: a webhook POST whose signature does not match is answered 401, and it is
\* neither decoded nor resolved to a role nor dispatched nor logged.
C4_TamperedSignatureRejected ==
    \A r \in Reqs :
        (req[r].entry = "webhook" /\ ~req[r].signatureMatches) =>
            /\ req[r].status = 401
            /\ ~req[r].decoded
            /\ req[r].lookups = 0
            /\ req[r].handlerCalls = 0
            /\ EntriesOf(r) = <<>>

----------------------------------------------------------------------------
(* C5 *)

\* a webhook POST with a matching signature and a payload that decodes to an
\* envelope (a message node with a valid timestamp)
AcceptedWebhook(r) ==
    /\ req[r].entry = "webhook"
    /\ req[r].signatureMatches
    /\ req[r].payload = "ok"

\* the background task of request r has started or ended
InTask(r) == req[r].pc \in {"logreq", "handler", "process", "logresp", "logerr", "return"}

\* C5: an accepted webhook POST gets at most one HTTP response, that response
\* is 200, it is sent before any audit entry is written or any handler invoked,
\* and it stays the one response whatever the handler, the audit writes and
\* the delivery do afterwards.
C5_AckOnceAndFirst ==
    \A r \in Reqs :
        AcceptedWebhook(r) =>
            /\ req[r].nResp <= 1
            /\ req[r].nResp = 1 => req[r].status = 200
            /\ (InTask(r) \/ req[r].pc = "done") => req[r].nResp = 1
            /\ (req[r].handlerCalls > 0 \/ EntriesOf(r) # <<>> \/ req[r].failed # {})
                   => (req[r].nResp = 1 /\ req[r].status = 200)

C5_Witness ==
    \E r \in Reqs :
        /\ AcceptedWebhook(r)
        /\ req[r].pc = "done"
        /\ req[r].handlerOutcome = "threw"
        /\ "agent_error" \in req[r].failed
        /\ req[r].status = 200
        /\ req[r].nResp = 1

----------------------------------------------------------------------------
(* C6 *)

----------------------------------------------------------------------------
(* C7 *)

\* C7: once an envelope has been dispatched and the sink accepted every write,
\* the audit log holds about it exactly one received entry followed by exactly
\* one terminal entry, responded or error.
C7_OneReceivedThenOneTerminal ==
    \A r \in Reqs :
        (Returned(r) /\ SinkAccepted(r)) =>
            KindsOf(r) \in {<<"received", "responded">>, <<"received", "error">>}

----------------------------------------------------------------------------
(* C8 *)

\* C8: a rejected audit write never changes the outcome: after a rejected
\* agent_request write the handler is still invoked, a rejected write never
\* leads into the catch block, what processAgentMessage returns after the
\* handler returned is the handler's response, also after a rejected
\* agent_response write, and after the handler threw it is the fallback, also
\* after a rejected agent_error write; the direct API answers 200.
C8_AuditFailureSwallowed ==
    \A r \in Reqs :
        /\ ("agent_request" \in req[r].failed /\ req[r].pc # "handler")
               => req[r].handlerCalls = 1
        /\ req[r].pc = "logerr" => req[r].handlerOutcome = "threw"
        /\ (Returned(r) /\ req[r].handlerOutcome \in {"normal", "caught"}) =>
               /\ req[r].reply = req[r].hReply
               /\ req[r].actions = req[r].hActions
               /\ Count(r, "agent_error") = 0
               /\ "agent_error" \notin req[r].failed
        /\ (Returned(r) /\ req[r].handlerOutcome = "threw") => req[r].reply = Apology
        /\ (Returned(r) /\ req[r].entry = "api" /\ req[r].pc = "done")
               => req[r].status = 200

C8_Witness ==
    \E r \in Reqs :
        /\ req[r].failed = {"agent_request", "agent_response"}
        /\ req[r].pc = "done"
        /\ req[r].entry = "api"
        /\ req[r].status = 200
        /\ req[r].handlerCalls = 1
        /\ req[r].reply = HandlerReply
        /\ req[r].actions # {}

----------------------------------------------------------------------------
(* C9 *)

\* C9: isAuthorizedForAgentType is true for customer for every sender string,
\* and for staff or admin it is true exactly when the lookup succeeds and the
\* directory holds a record with the normalized senderId, that role and
\* isActive true.
C9_IsAuthorized ==
    \A phone \in RawIds, dbFails \in BOOLEAN :
        /\ isAuthorizedForAgentType(dir, phone, TRUE, "customer", dbFails)
        /\ \A role \in RestrictedTypes :
               isAuthorizedForAgentType(dir, phone, TRUE, role, dbFails)
                   <=> (/\ ~dbFails
                        /\ \E rec \in dir : /\ rec.phone = normalizePhoneNumber(phone)
                                            /\ rec.userType = role
                                            /\ rec.isActive = TRUE)

\* the directory holds an inactive record and an active one, and a sender is
\* authorized by the active one only
C9_Witness ==
    \E inactive \in dir, active \in dir :
        /\ ~inactive.isActive
        /\ active.isActive
        /\ \E phone \in RawIds :
               /\ normalizePhoneNumber(phone) = inactive.phone
               /\ ~isAuthorizedForAgentType(dir, phone, TRUE, inactive.userType, FALSE)
        /\ \E phone \in RawIds :
               /\ normalizePhoneNumber(phone) = active.phone
               /\ isAuthorizedForAgentType(dir, phone, TRUE, active.userType, FALSE)

----------------------------------------------------------------------------
(* C10 *)

SameSender(a, b) == normalizePhoneNumber(a) = normalizePhoneNumber(b)

\* every operation of the auth service and role resolution give the same result,
\* and leave the same directory, for the identifiers a and b
AgreeOn(a, b) ==
    \A dbFails \in BOOLEAN :
        /\ \A role \in AgentTypes :
               /\ isAuthorizedForAgentType(dir, a, TRUE, role, dbFails)
                      = isAuthorizedForAgentType(dir, b, TRUE, role, dbFails)
               /\ getUserIdFromPhone(dir, a, role, dbFails)
                      = getUserIdFromPhone(dir, b, role, dbFails)
               /\ \A userId \in UserIds :
                      addAuthorizedNumber(dir, a, role, userId, dbFails)
                          = addAuthorizedNumber(dir, b, role, userId, dbFails)
        /\ removeAuthorizedNumber(dir, a, dbFails) = removeAuthorizedNumber(dir, b, dbFails)
        /\ \A isActive \in BOOLEAN :
               updateAuthorizedNumberStatus(dir, a, isActive, dbFails)
                   = updateAuthorizedNumberStatus(dir, b, isActive, dbFails)
        /\ \A failStaff \in BOOLEAN :
               determineAgentType(dir, a, TRUE, dbFails, failStaff)
                   = determineAgentType(dir, b, TRUE, dbFails, failStaff)

\* C10: in every directory the auth service can produce, every operation gives
\* for an identifier the result it gives for its normalized form, so that two
\* identifiers with the same normalized form, agreeing with that one form, are
\* the same sender to every operation; every record is stored under a
\* normalized identifier, and a record granted under one format authorizes
\* every other format of it.
C10_NormalizedEverywhere ==
    /\ \A a \in RawIds : AgreeOn(a, normalizePhoneNumber(a))
    /\ \A rec \in dir :
           /\ rec.phone = normalizePhoneNumber(rec.phone)
           /\ \A a \in RawIds :
                  (normalizePhoneNumber(a) = rec.phone /\ rec.isActive) =>
                      isAuthorizedForAgentType(dir, a, TRUE, rec.userType, FALSE)

\* a record is found through an identifier written differently from its key
C10_Witness ==
    \E rec \in dir, a \in RawIds :
        /\ a # rec.phone
        /\ SameSender(a, rec.phone)
        /\ rec.isActive
        /\ rec.userType = "admin"
        /\ isAuthorizedForAgentType(dir, a, TRUE, "admin", FALSE)
        /\ getUserIdFromPhone(dir, a, "admin", FALSE) = rec.userId

----------------------------------------------------------------------------
(* C11 *)

\* the digits of s, in their order
DigitsOf(s) == SelectSeq(s, LAMBDA c : c \in Digits)

\* exactly one leading "+" followed only by digits
IsCanonicalKey(key) ==
    /\ Len(key) >= 1
    /\ key[1] = "+"
    /\ \A i \in 2..Len(key) : key[i] \in Digits

\* C11: for every input string normalizePhoneNumber returns one leading "+"
\* followed only by the digits of the input, so that every key the directory
\* stores has that form.
C11_CanonicalKey ==
    /\ \A phone \in RawIds :
           LET key == normalizePhoneNumber(phone)
           IN  IsCanonicalKey(key) /\ DigitsOf(key) = DigitsOf(phone)
    /\ \A rec \in dir : IsCanonicalKey(rec.phone)

----------------------------------------------------------------------------
(* C12 *)

\* the directory holds an active record of the role for the sender
HasActiveRecord(phone, role) ==
    \E rec \in dir : /\ rec.phone = normalizePhoneNumber(phone)
                     /\ rec.userType = role
                     /\ rec.isActive

\* a lookup that determineAgentType makes is rejected: the admin lookup, or the
\* staff lookup, which is made when the admin lookup gave no record
LookupFailed(phone, failAdmin, failStaff) ==
    failAdmin \/ (~HasActiveRecord(phone, "admin") /\ failStaff)

\* C12: determineAgentType returns admin for a sender with an active admin
\* record, otherwise staff for one with an active staff record, otherwise
\* customer; when a lookup fails it returns customer; and it never returns a
\* restricted role the sender holds no active record of.
C12_ResolveByPrivilege ==
    \A phone \in RawIds, failAdmin \in BOOLEAN, failStaff \in BOOLEAN :
        LET resolved == determineAgentType(dir, phone, TRUE, failAdmin, failStaff)
        IN  /\ ~LookupFailed(phone, failAdmin, failStaff) =>
                   resolved = IF HasActiveRecord(phone, "admin") THEN "admin"
                              ELSE IF HasActiveRecord(phone, "staff") THEN "staff"
                              ELSE "customer"
            /\ LookupFailed(phone, failAdmin, failStaff) => resolved = "customer"
            /\ resolved \in RestrictedTypes => HasActiveRecord(phone, resolved)

----------------------------------------------------------------------------
(* C13 *)

\* C13: addAuthorizedNumber throws and leaves the directory as it is whenever
\* an active record of the normalized sender and the role exists, and no sender
\* holds two records of one restricted role.
C13_DuplicateGrantRejected ==
    /\ \A phone \in RawIds, role \in RestrictedTypes, dbFails \in BOOLEAN :
           HasActiveRecord(phone, role) =>
               LET out == addAuthorizedNumber(dir, phone, role, AccountId(role), dbFails)
               IN  out.threw /\ out.dir = dir
    /\ \A rec \in dir, other \in dir :
           (rec.phone = other.phone /\ rec.userType = other.userType) => rec = other

\* a record exists, and granting its role again to another way of writing its
\* number is rejected
C13_Witness ==
    \E rec \in dir, phone \in RawIds :
        /\ rec.isActive
        /\ phone # rec.phone
        /\ HasActiveRecord(phone, rec.userType)
        /\ addAuthorizedNumber(dir, phone, rec.userType, rec.userId, FALSE).threw

----------------------------------------------------------------------------
(* C14 *)

\* C14: whenever "Deactivate staff: <phone>" succeeds, the phone is no longer
\* authorized for staff, and an "Activate staff: <phone>" command that follows
\* succeeds and makes the phone authorized for staff again.
C14_DeactivationReversible ==
    \A phone \in Phones :
        LET off == handleUpdateStaffStatusRequest(dir, staff, phone, FALSE,
                                                  FALSE, FALSE, FALSE)
            on == handleUpdateStaffStatusRequest(off.dir, off.staff, phone, TRUE,
                                                 FALSE, FALSE, FALSE)
        IN  off.reply = StaffDeactivated =>
                /\ ~isAuthorizedForAgentType(off.dir, phone, TRUE, "staff", FALSE)
                /\ on.reply = StaffActivated
                /\ isAuthorizedForAgentType(on.dir, phone, TRUE, "staff", FALSE)

----------------------------------------------------------------------------
(* C15 *)

\* the sender of request r held an active admin record when the request was
\* authorized: by the middleware on the direct API, by role resolution on the
\* webhook
AuthorizedAsAdmin(r) ==
    /\ req[r].agentType = "admin"
    /\ req[r].entry = "api" => req[r].authCheck = "granted"

\* C15: a step of processing a message changes the directory only if the sender
\* of the message held an active admin record when the request was authorized.
C15_OnlyAdminsChangeDirectory ==
    [][\A r \in Reqs : (req'[r] # req[r] /\ dir' # dir) => AuthorizedAsAdmin(r)]_vars

----------------------------------------------------------------------------
(* C16 *)

\* a webhook POST with a matching signature whose payload has no message node
WithoutMessage(r) ==
    /\ req[r].entry = "webhook"
    /\ req[r].signatureMatches
    /\ req[r].payload \in {"nullBody", "noMessage"}

\* C16: a webhook POST with a valid signature and no message node decodes to
\* null, is answered 400 and nothing else: no role is resolved, no handler is
\* invoked and no audit event is written.
C16_NoMessageRejected ==
    \A r \in Reqs :
        WithoutMessage(r) =>
            /\ parseWhatsAppWebhook(req[r].payload).isNull
            /\ req[r].pc = "done"
            /\ req[r].status = 400 /\ req[r].nResp = 1
            /\ req[r].lookups = 0
            /\ req[r].handlerCalls = 0
            /\ EntriesOf(r) = <<>>

\* a null body has been answered 400 while the directory holds a record of the
\* sender
C16_Witness ==
    \E r \in Reqs :
        /\ WithoutMessage(r)
        /\ req[r].payload = "nullBody"
        /\ req[r].status = 400
        /\ \E rec \in dir : rec.phone = normalizePhoneNumber(req[r].senderId)

----------------------------------------------------------------------------
(* C17 *)

\* C17: a message whose timestamp is missing or not a number decodes to null,
\* so the webhook carrying it is answered 400 and nothing is dispatched.
C17_BadTimestampRejected ==
    \A r \in Reqs :
        (req[r].entry = "webhook" /\ req[r].payload = "badTimestamp") =>
            /\ parseWhatsAppWebhook(req[r].payload).isNull
            /\ req[r].nResp > 0 => req[r].status = 400
            /\ req[r].handlerCalls = 0
            /\ EntriesOf(r) = <<>>

----------------------------------------------------------------------------
(* C18 *)

\* a well-formed request for the customer role on the direct API
CustomerRequest(r) ==
    /\ req[r].entry = "api"
    /\ req[r].agentType = "customer"
    /\ validateAgentInput(req[r])

\* C18: a well-formed message for the customer role causes no directory lookup
\* and is never turned away: until its handler is invoked its next step towards
\* the handler can be taken, and from then on the handler has been invoked,
\* whatever the directory holds and whether or not it can be reached.
C18_CustomerNeverLooksUp ==
    \A r \in Reqs :
        CustomerRequest(r) =>
            /\ req[r].lookups = 0
            /\ req[r].authCheck # "denied"
            /\ req[r].status \in {0, 200}
            /\ req[r].pc \in {"mw", "logreq", "handler"} =>
                   ENABLED (Authorize(r) \/ LogAgentRequest(r) \/ InvokeHandler(r))
            /\ req[r].pc \notin {"mw", "logreq", "handler"} =>
                   req[r].handlerCalls = 1

\* a customer request has been handled and answered while the directory holds
\* a record of its sender
C18_Witness ==
    \E r \in Reqs :
        /\ CustomerRequest(r)
        /\ req[r].senderId # <<>>
        /\ req[r].pc = "done"
        /\ req[r].handlerCalls = 1
        /\ req[r].status = 200
        /\ \E rec \in dir : rec.phone = normalizePhoneNumber(req[r].senderId)

----------------------------------------------------------------------------
(* C19 *)

\* a request on the direct API whose senderId, message or timestamp is missing
\* or not a string, or whose mediaUrl is present and not a string
Malformed(r) ==
    /\ req[r].entry = "api"
    /\ req[r].idKind # "string" \/ ~req[r].bodyOk \/ ~req[r].mediaOk

\* C19: on the direct API a malformed body is answered 400, invokes no handler
\* and leaves no audit event, for every role and sender.
C19_MalformedBodyRejected ==
    \A r \in Reqs :
        Malformed(r) =>
            /\ req[r].nResp > 0 => req[r].status = 400
            /\ req[r].pc \in {"mw", "done"}
            /\ req[r].handlerCalls = 0
            /\ EntriesOf(r) = <<>>

----------------------------------------------------------------------------
(* C20 *)

\* the replies a handler composes when nothing has failed
NormalReplies ==
    {HandlerReply, AddUsage, NoPermission, StaffAdded, RemoveUsage, StaffNotFound,
     StaffRemoved, RemoveFailed, UpdateUsage, StaffActivated, StaffDeactivated,
     UpdateFailed}

\* C20: the reply returned for a request is a handler's normal reply or the
\* fixed fallback, and the reply of a command is the same whatever the text of
\* the error that was caught while processing it.
C20_ReplyWithoutFailureText ==
    \A r \in Reqs :
        /\ Returned(r) => req[r].reply \in NormalReplies \cup {Apology}
        /\ (req[r].pc = "process" /\ req[r].agentType = "admin") =>
               \A phone \in Managed, createFails \in BOOLEAN, dbFails \in BOOLEAN,
                  text \in FailureTexts, other \in FailureTexts :
                   handleAddStaffRequest(dir, staff, req[r].senderId, phone, TRUE,
                                         FALSE, createFails, dbFails, text).reply
                   = handleAddStaffRequest(dir, staff, req[r].senderId, phone, TRUE,
                                           FALSE, createFails, dbFails, other).reply

----------------------------------------------------------------------------
(* C21 *)

\* the steps of processAgentMessage for request r: the audit writes and the
\* call of the handler
Dispatch(r) ==
    \/ LogAgentRequest(r)
    \/ InvokeHandler(r)
    \/ HandlerReturns(r)
    \/ AdminCommand(r, Managed)
    \/ LogAgentResponse(r)
    \/ LogAgentError(r)

\* the pipeline when every await of processAgentMessage settles: the handler
\* call and each Log.create eventually return or fail
FairSpec == Spec /\ \A r \in Reqs : WF_vars(Dispatch(r))

\* C21: every envelope handed to processAgentMessage, by the direct API that
\* awaits it or by the webhook route that does not, eventually gets its
\* output: the handler's response or the fallback.
C21_DispatchCompletes ==
    \A r \in Reqs : (req[r].pc = "logreq") ~> Returned(r)

\* a webhook envelope whose handler threw and whose agent_request and
\* agent_error writes were both rejected has got the fallback
C21_Witness ==
    \E r \in Reqs :
        /\ req[r].entry = "webhook"
        /\ req[r].handlerOutcome = "threw"
        /\ req[r].failed = {"agent_request", "agent_error"}
        /\ req[r].pc = "return"
        /\ req[r].reply = Apology

----------------------------------------------------------------------------
(* C22 *)

\* two envelopes that are dispatched at the same time
Envelopes == {1, 2}

ConcInit ==
    /\ dir = {}
    /\ staff = {}
    /\ log = <<>>
    /\ req = [r \in Envelopes |-> IdleReq]

\* the route an envelope comes in by: one by the direct API, which awaits
\* processAgentMessage, the other by the /whatsapp route, which does not
EntryOf(r) == IF r = 1 THEN "api" ELSE "webhook"

\* processAgentMessage(input) is called for envelope r: by handleAgentMessage
\* after validation, or by processWebhookMessage after the route has sent its 200
Handover(r) ==
    /\ req[r].pc = "idle"
    /\ \E agentType \in AgentTypes :
        LET rec == [IdleReq EXCEPT !.pc = "logreq", !.entry = EntryOf(r),
                                   !.agentType = agentType, !.idKind = "string",
                                   !.senderId = <<"1">>, !.bodyOk = TRUE]
        IN  req' = [req EXCEPT ![r] =
                      IF EntryOf(r) = "api" THEN [rec EXCEPT !.authCheck = "granted"]
                      ELSE [Respond(rec, 200) EXCEPT !.signatureMatches = TRUE,
                                                     !.payload = "ok", !.decoded = TRUE]]
    /\ UNCHANGED <<dir, staff, log>>

\* the directory is not written to while the two envelopes are in flight
ConcNext ==
    \E r \in Envelopes :
        \/ Handover(r)
        \/ LogAgentRequest(r)
        \/ InvokeHandler(r)
        \/ HandlerReturns(r)
        \/ LogAgentResponse(r)
        \/ LogAgentError(r)
        \/ ApiRespond(r)
        \/ Deliver(r)

\* the dispatcher with two envelopes in flight, their steps interleaved
ConcSpec == ConcInit /\ [][ConcNext]_vars

\* the Log.create calls that processAgentMessage and the handler have made for
\* an envelope, given how far it has got and how its handler came back
Attempted(rec) ==
    (IF rec.pc \in {"handler", "process", "logresp", "logerr", "return", "done"}
     THEN {"agent_request"} ELSE {})
    \cup (IF rec.handlerCalls > 0 THEN {"message_received"} ELSE {})
    \cup (IF rec.pc \in {"return", "done"} /\ rec.handlerOutcome \in {"normal", "caught"}
          THEN {"agent_response"} ELSE {})
    \cup (IF rec.pc \in {"return", "done"} /\ rec.handlerOutcome = "threw"
          THEN {"agent_error"} ELSE {})

\* the outcome of envelope r is the one of its own pipeline: its response is
\* its handler's or, when its handler threw, the fallback; its handler was
\* invoked once; its audit entries are its own accepted writes
OwnOutcome(r) ==
    /\ Returned(r) =>
           IF req[r].handlerOutcome = "threw"
           THEN req[r].reply = Apology /\ req[r].actions = {}
           ELSE req[r].reply = req[r].hReply /\ req[r].actions = req[r].hActions
    /\ req[r].handlerCalls =
           (IF req[r].pc \in {"process", "logresp", "logerr", "return", "done"} THEN 1 ELSE 0)
    /\ req[r].failed \subseteq Attempted(req[r])
    /\ \A action \in {"agent_request", "message_received", "agent_response", "agent_error"} :
           Count(r, action) =
               (IF action \in Attempted(req[r]) \ req[r].failed THEN 1 ELSE 0)

\* a step is a step of one envelope: the other's record and audit entries stay
\* as they are
OneEnvelopeSteps ==
    \E r \in Envelopes :
        \A q \in Envelopes \ {r} : req'[q] = req[q] /\ EntriesOf(q)' = EntriesOf(q)

\* C22: with two envelopes dispatched concurrently, every step belongs to one
\* envelope and leaves the other's response, handler invocation and audit
\* entries untouched, and each envelope's outcome is the outcome of its own
\* pipeline, whatever failed in the other.
C22_EnvelopesIsolated ==
    /\ [](\A r \in Envelopes : OwnOutcome(r))
    /\ [][OneEnvelopeSteps]_vars

\* one envelope ended with the fallback and a rejected agent_error write while
\* the other, in flight at the same time, ended with its handler's response and
\* a full audit trail
C22_Witness ==
    \E r \in Envelopes, q \in Envelopes :
        /\ req[r].pc = "done" /\ req[q].pc = "done"
        /\ req[r].handlerOutcome = "threw" /\ "agent_error" \in req[r].failed
        /\ req[q].handlerOutcome = "normal" /\ req[q].reply = HandlerReply
        /\ req[q].failed = {}
        /\ log[1].rid = r /\ log[Len(log)].rid = q /\ log[2].rid = q

----------------------------------------------------------------------------
(* C23 *)

\* how far a request has got
Stage(pc) ==
    CASE pc = "idle" -> 0
      [] pc = "mw" -> 1
      [] pc = "resolveAdmin" -> 1
      [] pc = "resolveStaff" -> 2
      [] pc = "logreq" -> 3
      [] pc = "handler" -> 4
      [] pc = "process" -> 5
      [] pc = "logresp" -> 6
      [] pc = "logerr" -> 6
      [] pc = "return" -> 7
      [] pc = "done" -> 8
      [] pc = "retired" -> 9

\* a step never takes a request back: once past the hand-over to
\* processAgentMessage, past the call of the handler or past the delivery, it
\* does not come by there again
NeverBack ==
    \A r \in Reqs :
        /\ Stage(req'[r].pc) >= Stage(req[r].pc)
        /\ req'[r].pc # "retired" => req'[r].handlerCalls >= req[r].handlerCalls

\* C23: an envelope is handed to processAgentMessage at most once and its
\* handler is invoked at most once; after a handler failure, a rejected audit
\* write or the delivery nothing is run a second time.
C23_AtMostOnce ==
    /\ [](\A r \in Reqs :
              /\ req[r].handlerCalls <= 1
              /\ Count(r, "agent_request") <= 1
              /\ Count(r, "message_received") <= 1
              /\ req[r].sent <= 1)
    /\ [][NeverBack]_vars

\* a webhook envelope whose handler failed, whose audit writes were all
\* rejected and whose processing has ended: its handler ran once
C23_Witness ==
    \E r \in Reqs :
        /\ req[r].entry = "webhook"
        /\ req[r].pc = "done"
        /\ req[r].handlerOutcome = "threw"
        /\ req[r].failed = {"agent_request", "message_received", "agent_error"}
        /\ req[r].handlerCalls = 1

----------------------------------------------------------------------------
(* C24 *)

\* the Log.create of the terminal audit entry of request r has been made:
\* accepted or rejected
TerminalWritten(r) ==
    Count(r, "agent_response") + Count(r, "agent_error")
        + Cardinality(req[r].failed \cap {"agent_response", "agent_error"}) = 1

\* the actions of request r have been run
Delivered(r) == req[r].entry = "webhook" /\ req[r].pc = "done" /\ req[r].status = 200

\* a step that runs the actions of a request, or that follows a failed send,
\* writes no audit entry and calls no handler
DeliveryOnlyLogged ==
    \A r \in Reqs :
        /\ (req[r].entry = "webhook" /\ req[r].pc = "return" /\ req'[r].pc = "done") =>
               /\ log' = log
               /\ req'[r].handlerCalls = req[r].handlerCalls
               /\ req'[r].reply = req[r].reply
        /\ req[r].sendFailed =>
               /\ req'[r] \in {req[r], RetiredReq}
               /\ req'[r] = req[r] => EntriesOf(r)' = EntriesOf(r)

\* C24: on the webhook path the actions are run only after processAgentMessage
\* has returned and the terminal audit entry has been written, and a failed
\* send ends the processing: no handler or dispatcher runs again and the audit
\* log stays as it is.
C24_DeliveryAfterDispatch ==
    /\ [](\A r \in Reqs :
              /\ (Delivered(r) \/ req[r].sent > 0) => (Returned(r) /\ TerminalWritten(r))
              /\ req[r].sendFailed => (req[r].pc = "done" /\ req[r].handlerCalls = 1))
    /\ [][DeliveryOnlyLogged]_vars

\* the send of a reply failed after the handler's response had been logged
C24_Witness ==
    \E r \in Reqs :
        /\ req[r].sendFailed
        /\ req[r].sent = 1
        /\ Count(r, "agent_response") = 1
        /\ KindsOf(r)[Len(EntriesOf(r))] = "responded"

----------------------------------------------------------------------------
(* C25 *)

\* processing inside the handler of request r failed: the exception was caught
\* by the handler's own catch block, or it escaped the handler
HandlerFailed(r) == req[r].handlerOutcome \in {"caught", "threw"}

\* C25: whenever processing inside a handler failed, or the fixed fallback is
\* what processAgentMessage returned, and the sink accepted every write, the
\* audit log holds one agent_error entry and no agent_response entry for the
\* envelope.
C25_HandlerFailureAudited ==
    \A r \in Reqs :
        (Returned(r) /\ SinkAccepted(r) /\ (HandlerFailed(r) \/ req[r].reply = Apology)) =>
            /\ Count(r, "agent_error") = 1
            /\ Count(r, "agent_response") = 0

----------------------------------------------------------------------------
(* C26 *)

\* the handler of a webhook request resolved to staff or admin is invoked in
\* this step
RestrictedHandlerInvoked(r) ==
    /\ req[r].entry = "webhook"
    /\ req[r].agentType \in RestrictedTypes
    /\ req'[r].handlerCalls > req[r].handlerCalls

\* C26: on the webhook path the role is resolved before the acknowledgment and
\* not again, and whenever a staff or admin handler is invoked the sender holds
\* an active record of that role at that moment, whatever revoke and setActive
\* calls took place since the role was resolved.
C26_RoleStillHeldAtInvocation ==
    [][\A r \in Reqs :
           /\ (req[r].entry = "webhook" /\ req[r].nResp > 0) =>
                  req'[r].lookups = req[r].lookups \/ req'[r].pc = "retired"
           /\ RestrictedHandlerInvoked(r) => HasActiveRecord(req[r].senderId, req[r].agentType)]_vars

----------------------------------------------------------------------------
(* C27 *)

\* two callers of addAuthorizedNumber whose awaits interleave
Callers == {1, 2}

\* the identifiers the directory is managed with: two ways of writing one
\* number, and two other numbers
GrantIds == Managed \cup Phones

IdleCall == [pc |-> "idle", phone |-> <<>>, userType |-> "none", found |-> FALSE, threw |-> FALSE]

GrantInit ==
    /\ dir = {}
    /\ staff = {}
    /\ log = <<>>
    /\ req = [c \in Callers |-> IdleCall]

\* a faulty variant of CreateRejected: the collection has no unique index on phone
CreateWithoutIndex(d, normalizedPhone, dbFails) == dbFails

\* AuthorizedNumber.create rejects: the database fails, or the unique index on
\* phone holds a document with that phone (E11000 duplicate key)
CreateRejected(d, normalizedPhone, dbFails) ==
    dbFails \/ (\E rec \in d : rec.phone = normalizedPhone)

\* addAuthorizedNumber(phone, userType, userId) is called
AddCall(c) ==
    /\ req[c].pc \in {"idle", "done"}
    /\ \E phone \in GrantIds, userType \in RestrictedTypes :
        req' = [req EXCEPT ![c] = [IdleCall EXCEPT !.pc = "findOne", !.phone = phone,
                                                   !.userType = userType]]
    /\ UNCHANGED <<dir, staff, log>>

\* await AuthorizedNumber.findOne({phone: normalizedPhone}); the call throws
\* when a record is found or the query rejects
AddFindOne(c) ==
    /\ req[c].pc = "findOne"
    /\ \E dbFails \in BOOLEAN :
        LET found == \E rec \in dir : rec.phone = normalizePhoneNumber(req[c].phone)
        IN  req' = [req EXCEPT ![c] =
                      IF dbFails \/ found
                      THEN [@ EXCEPT !.pc = "done", !.found = found, !.threw = TRUE]
                      ELSE [@ EXCEPT !.pc = "create"]]
    /\ UNCHANGED <<dir, staff, log>>

\* await AuthorizedNumber.create({phone: normalizedPhone, userType, userId,
\* isActive: true}); a rejection is rethrown
AddCreate(c) ==
    /\ req[c].pc = "create"
    /\ \E dbFails \in BOOLEAN :
        LET normalizedPhone == normalizePhoneNumber(req[c].phone)
        IN  IF CreateRejected(dir, normalizedPhone, dbFails)
            THEN /\ dir' = dir
                 /\ req' = [req EXCEPT ![c] = [@ EXCEPT !.pc = "done", !.threw = TRUE]]
            ELSE /\ dir' = dir \cup {[phone |-> normalizedPhone,
                                      userType |-> req[c].userType,
                                      userId |-> AccountId(req[c].userType),
                                      isActive |-> TRUE]}
                 /\ req' = [req EXCEPT ![c] = [@ EXCEPT !.pc = "done"]]
    /\ UNCHANGED <<staff, log>>

GrantNext ==
    \/ Revoke(GrantIds)
    \/ SetActive(GrantIds)
    \/ \E c \in Callers :
        \/ AddCall(c)
        \/ AddFindOne(c)
        \/ AddCreate(c)

\* the management calls with the awaits of two addAuthorizedNumber calls
\* interleaved
GrantSpec == GrantInit /\ [][GrantNext]_vars

\* a call that finds or meets a record of its sender throws and adds nothing
RejectedWhenRecordExists ==
    \A c \in Callers :
        (/\ req[c].pc \in {"findOne", "create"}
         /\ req'[c].pc = "done"
         /\ \E rec \in dir : rec.phone = normalizePhoneNumber(req[c].phone))
            => (req'[c].threw /\ dir' = dir)

\* C27: under every interleaving of grant, revoke and setActive calls, two
\* concurrent grants of one number included, the directory holds at most one
\* record per normalized sender identifier across all roles, so no sender is
\* authorized for both restricted roles; and a grant is rejected whenever a
\* record of the sender exists, inactive or of another role as it may be.
C27_OneRecordPerSender ==
    /\ [](/\ \A rec \in dir, other \in dir : rec.phone = other.phone => rec = other
          /\ \A phone \in GrantIds :
                 ~(/\ isAuthorizedForAgentType(dir, phone, TRUE, "admin", FALSE)
                   /\ isAuthorizedForAgentType(dir, phone, TRUE, "staff", FALSE))
          /\ \A phone \in GrantIds, role \in RestrictedTypes :
                 (\E rec \in dir : rec.phone = normalizePhoneNumber(phone)) =>
                     LET out == addAuthorizedNumber(dir, phone, role, AccountId(role), FALSE)
                     IN  out.threw /\ out.dir = dir)
    /\ [][RejectedWhenRecordExists]_vars

\* two calls for two ways of writing one number, for different roles, both
\* found no record; one created its record and the other was rejected by the
\* unique index
C27_Witness ==
    \E c \in Callers, o \in Callers :
        /\ req[c].pc = "done" /\ req[o].pc = "done"
        /\ req[c].phone # req[o].phone
        /\ normalizePhoneNumber(req[c].phone) = normalizePhoneNumber(req[o].phone)
        /\ req[c].userType # req[o].userType
        /\ ~req[c].threw
        /\ req[o].threw /\ ~req[o].found
        /\ \E rec \in dir : rec.phone = normalizePhoneNumber(req[c].phone) /\ ~rec.isActive

----------------------------------------------------------------------------
(* C28 *)

\* the directory d holds a staff record for the phone of every account in accounts
Backed(d, accounts) ==
    \A s \in accounts : \E rec \in d : rec.phone = s.phone /\ rec.userType = "staff"

\* C28: createStaff is all-or-nothing: when it throws, the Staff collection
\* and the directory are as they were; when it returns, the account it created
\* has a staff authorization record for its phone.
C28_CreateStaffAllOrNothing ==
    \A phone \in Phones, createFails \in BOOLEAN :
        LET out == createStaff(dir, staff, phone, createFails, FALSE)
        IN  /\ out.threw => (out.staff = staff /\ out.dir = dir)
            /\ ~out.threw => Backed(out.dir, out.staff \ staff)

----------------------------------------------------------------------------
(* C29 *)

\* the ids updateStaffStatus is called with: those of the accounts, and one
\* that no account has
StaffIds == {s.id : s \in staff} \cup {AccountId("staff")}

\* C29: when updateStaffStatus(staffId, isActive) returns true, the account's
\* isActive flag equals isActive and the phone of the account is authorized for
\* staff exactly when isActive is true; when no account has the id it returns
\* false and changes neither collection.
C29_StatusInStep ==
    \A staffId \in StaffIds, isActive \in BOOLEAN, dbFails \in BOOLEAN :
        LET out == updateStaffStatus(dir, staff, staffId, isActive, FALSE, dbFails)
        IN  /\ out.ret =>
                   \A s \in out.staff :
                       s.id = staffId =>
                           /\ s.isActive = isActive
                           /\ isAuthorizedForAgentType(out.dir, s.phone, TRUE, "staff", FALSE)
                                  = isActive
            /\ (\A s \in staff : s.id # staffId) =>
                   (~out.ret /\ out.dir = dir /\ out.staff = staff)

----------------------------------------------------------------------------
(* C30 *)

\* C30: on the webhook path sendWhatsAppMessage is called for an envelope
\* exactly when the response that processAgentMessage returned carries the
\* action whatsapp, once, with the sender identifier as it came in and the
\* reply of that response; without that action, and on the direct API, no
\* channel message is sent.
C30_ReplyIffTagged ==
    \A r \in Reqs :
        LET calls == req[r].outbox
        IN  /\ Len(calls) <= 1
            /\ req[r].sent = Len(calls)
            /\ (req[r].entry # "webhook" \/ req[r].pc # "done" \/ ~Returned(r)) => calls = <<>>
            /\ (req[r].entry = "webhook" /\ req[r].pc = "done" /\ Returned(r)) =>
                   (calls # <<>> <=> "whatsapp" \in req[r].actions)
            /\ calls # <<>> => calls[1] = [to |-> req[r].senderId, message |-> req[r].reply]

\* a reply was sent to a staff member whose identifier came in written
\* differently from the key of the record
C30_Witness ==
    \E r \in Reqs :
        /\ req[r].entry = "webhook"
        /\ req[r].agentType = "staff"
        /\ req[r].outbox # <<>>
        /\ req[r].outbox[1].to # normalizePhoneNumber(req[r].senderId)
        /\ req[r].outbox[1].message = HandlerReply

====
